---------------------------- MODULE Spec2Model ----------------------------
(***************************************************************************)
(* Model of the Bragg experiment controller (bragg.py) and its instrument  *)
(* drivers (devices/*.py).                                                 *)
(*                                                                         *)
(* Python floats are modelled as exact rationals <<num, den>> (den > 0,    *)
(* reduced); frequencies are counted in MHz so that they fit TLC's         *)
(* integers.  Every driver method is an operator from a "world" record     *)
(* (the driver objects, the device-side registers, the trace of the        *)
(* current call, its return value and its pending exception) to the world  *)
(* after the call; an action applies one public method to the variables.   *)
(***************************************************************************)
EXTENDS Integers, Sequences, FiniteSets, TLC

VARIABLES
    laser,        \* MuquansLaser object: tn, laser_on, current_power
    rf_gen,       \* RFGenerator object: synth handle + synthesizer sweep registers
    signal_gen,   \* RedPitayaSignalGenerator object: pyrpl handle + asg0/asg1 state
    sa,           \* RigolSA object: sa handle
    afg,          \* TektronixAFG3000C object: instrument handle + channel state
    trace,        \* driver calls and transport operations of the current/last call
    exc,          \* exception that the current/last call raised ("none" if it returned)
    ret,          \* value the last call returned
    call,         \* the public operation last invoked, with its arguments
    pc,           \* "idle", or "loop" while run_experiment iterates
    num_steps,    \* run_experiment's argument
    step,         \* run_experiment's loop variable
    results,      \* run_experiment's local list
    connected     \* history: the devices whose connect has ever succeeded

vars == <<laser, rf_gen, signal_gen, sa, afg, trace, exc, ret, call, pc,
          num_steps, step, results, connected>>

-----------------------------------------------------------------------------
(* Bounds *)

MaxSteps == 3

-----------------------------------------------------------------------------
(* Rational arithmetic standing for Python float arithmetic *)

Abs(x) == IF x < 0 THEN -x ELSE x

RECURSIVE GCD(_, _)
GCD(a, b) == IF b = 0 THEN a ELSE GCD(b, a % b)

Rat(n, d) ==
    LET g == GCD(Abs(n), Abs(d))
        s == IF d < 0 THEN -1 ELSE 1
    IN  <<(s * n) \div g, (s * d) \div g>>

RInt(n)    == <<n, 1>>
RLe(a, b)  == a[1] * b[2] <= b[1] * a[2]
RLt(a, b)  == a[1] * b[2] <  b[1] * a[2]
RMul(a, b) == Rat(a[1] * b[1], a[2] * b[2])
RDiv(a, b) == Rat(a[1] * b[2], a[2] * b[1])
RAdd(a, b) == Rat(a[1] * b[2] + b[1] * a[2], a[2] * b[2])
RSub(a, b) == Rat(a[1] * b[2] - b[1] * a[2], a[2] * b[2])
RMax(a, b) == IF RLe(a, b) THEN b ELSE a
RMin(a, b) == IF RLe(a, b) THEN a ELSE b

-----------------------------------------------------------------------------
(* Values *)

None  == "None"
NoExc == "none"
Unset == <<>>          \* a device register that was never written

World ==
    [laser |-> laser, rf_gen |-> rf_gen, signal_gen |-> signal_gen, sa |-> sa,
     afg |-> afg, trace |-> trace, exc |-> exc, ret |-> ret,
     results |-> results, connected |-> connected]

\* The world at the start of a call: empty trace, no exception, no value; the
\* list an earlier run_experiment returned is the caller's and is dropped.
Enter == [World EXCEPT !.trace = <<>>, !.exc = NoExc, !.ret = None, !.results = <<>>]

\* A driver method was entered with these arguments.
Called(w, d, m, a) ==
    [w EXCEPT !.trace = Append(@, [kind |-> "call", dev |-> d, cmd |-> m, arg |-> a])]

\* A transport operation (write, query, setup, close) reached the device.
Sent(w, d, c, a) ==
    [w EXCEPT !.trace = Append(@, [kind |-> "io", dev |-> d, cmd |-> c, arg |-> a])]

\* A driver method handed a measured value (or None) back to its caller.
Returned(w, d, m, v) ==
    [w EXCEPT !.ret = v,
              !.trace = Append(@, [kind |-> "return", dev |-> d, cmd |-> m, arg |-> <<v>>])]

Raise(w, e)  == [w EXCEPT !.exc = e, !.ret = None]
Return(w, v) == [w EXCEPT !.ret = v]

\* Statement sequencing.  Every method below takes the world its caller has
\* reached; when an earlier statement of the caller raised, the exception is
\* propagating and the method is not run.
Then(prev, next) == IF prev.exc # NoExc THEN prev ELSE next

-----------------------------------------------------------------------------
(* devices/MuquansLaser.py *)

\* What the Telnet exchange of one command does: a non-empty line comes back,
\* read_until times out with an empty line, the write raises, the read raises.
LaserIO == {"ok", "empty", "write_error", "read_error"}

MuquansLaser_init == [tn |-> FALSE, laser_on |-> FALSE, current_power |-> RInt(0)]

MuquansLaser_connect(w, ok) ==
    Then(w, LET w1 == Called(w, "laser", "connect", <<>>)
            IN  IF ok
                THEN [w1 EXCEPT !.laser.tn = TRUE, !.connected = @ \cup {"laser"}]
                ELSE w1)

MuquansLaser_disconnect(w) ==
    Then(w, LET w1 == Called(w, "laser", "disconnect", <<>>)
            IN  IF w.laser.tn
                THEN [Sent(w1, "laser", "close", <<>>) EXCEPT !.laser.tn = FALSE]
                ELSE w1)

\* Mutant: the `if self.tn is None` guard is missing.
MuquansLaser_send_command_noguard(w, command, arg, io) ==
    CASE io = "ok" ->
             Returned(Sent(w, "laser", command, arg), "laser", "_send_command", "OK")
      [] io = "empty" ->
             Returned(Sent(w, "laser", command, arg), "laser", "_send_command", "")
      [] io = "write_error" ->
             Returned(w, "laser", "_send_command", None)
      [] io = "read_error" ->
             Returned(Sent(w, "laser", command, arg), "laser", "_send_command", None)

\* The response handed back to the calling method is recorded in the trace.
MuquansLaser_send_command(w, command, arg, io) ==
    IF ~w.laser.tn
    THEN Returned(w, "laser", "_send_command", None)
    ELSE CASE io = "ok" ->
                  Returned(Sent(w, "laser", command, arg), "laser", "_send_command", "OK")
           [] io = "empty" ->
                  Returned(Sent(w, "laser", command, arg), "laser", "_send_command", "")
           [] io = "write_error" ->
                  Returned(w, "laser", "_send_command", None)
           [] io = "read_error" ->
                  Returned(Sent(w, "laser", command, arg), "laser", "_send_command", None)

\* Mutant: the test is `response is not None`.
Truthy_not_none(v) == v # None

\* Python truth of a response: None and "" are false.
Truthy(v) == v # None /\ v # ""

\* if response: self.laser_on = value
Laser_cache_on(w, value) ==
    IF Truthy(w.ret) THEN Return([w EXCEPT !.laser.laser_on = value], None)
                     ELSE Return(w, None)

\* if response: self.current_power = value
Laser_cache_power(w, value) ==
    IF Truthy(w.ret) THEN Return([w EXCEPT !.laser.current_power = value], None)
                     ELSE Return(w, None)

MuquansLaser_seed_on(w, io) ==
    Then(w, Laser_cache_on(
                MuquansLaser_send_command(Called(w, "laser", "seed_on", <<>>),
                    "Enable_Current_Laser_Diode on", <<>>, io),
                TRUE))

MuquansLaser_seed_off(w, io) ==
    Then(w, Laser_cache_on(
                MuquansLaser_send_command(Called(w, "laser", "seed_off", <<>>),
                    "Enable_Current_Laser_Diode off", <<>>, io),
                FALSE))

PowerMax == <<5, 2>>   \* 2.5

\* Mutant: the range check is missing.
MuquansLaser_set_power_nocheck(w, power, io) ==
    Then(w, Laser_cache_power(
                MuquansLaser_send_command(
                    Called(w, "laser", "set_power", <<power>>),
                    "edfa_set", <<power>>, io),
                power))

MuquansLaser_set_power(w, power, io) ==
    Then(w, IF ~(RLe(RInt(0), power) /\ RLe(power, PowerMax))
            THEN Raise(Called(w, "laser", "set_power", <<power>>), "ValueError")
            ELSE Laser_cache_power(
                     MuquansLaser_send_command(
                         Called(w, "laser", "set_power", <<power>>),
                         "edfa_set", <<power>>, io),
                     power))

MuquansLaser_shutdown_edfa(w, io) ==
    Then(w, Laser_cache_power(
                MuquansLaser_send_command(Called(w, "laser", "shutdown_edfa", <<>>),
                    "edfa_shutdown", <<>>, io),
                RInt(0)))

MuquansLaser_shutdown(w, io1, io2) ==
    Then(w, MuquansLaser_seed_off(
                MuquansLaser_shutdown_edfa(Called(w, "laser", "shutdown", <<>>), io1),
                io2))

-----------------------------------------------------------------------------
(* devices/RFGenerator.py *)

\* self.synth is None when the constructor failed, else a SynthHD object; the
\* object stays in place (and true) after shutdown closed its serial link,
\* and a write on the closed link raises.
SweepRegs == {"sweep_freq_low", "sweep_freq_high", "sweep_freq_step",
              "sweep_diff_meth", "sweep_diff_freq", "sweep_time_step",
              "trig_function"}

RFGenerator_init(ok) ==
    [synth |-> IF ok THEN "open" ELSE None, reg |-> [r \in SweepRegs |-> Unset]]

\* One attribute assignment or write(...) on the synthesizer.
Synth_write(w, name, value) ==
    Then(w, IF w.rf_gen.synth = "closed"
            THEN Raise(w, "ClosedError")
            ELSE IF name \in SweepRegs
            THEN [Sent(w, "rf", name, <<value>>) EXCEPT !.rf_gen.reg[name] = value]
            ELSE Sent(w, "rf", name, <<value>>))

Synth_close(w) ==
    Then(w, [Sent(w, "rf", "close", <<>>) EXCEPT !.rf_gen.synth = "closed"])

RFGenerator_enable(w, channel) ==
    Then(w, IF w.rf_gen.synth # None /\ channel \in {0, 1}
            THEN Synth_write(Called(w, "rf", "enable", <<channel>>),
                             "enable", <<channel, 1>>)
            ELSE Called(w, "rf", "enable", <<channel>>))

RFGenerator_disable(w, channel) ==
    Then(w, IF w.rf_gen.synth # None /\ channel \in {0, 1}
            THEN Synth_write(Called(w, "rf", "disable", <<channel>>),
                             "enable", <<channel, 0>>)
            ELSE Called(w, "rf", "disable", <<channel>>))

RFGenerator_set_frequency(w, channel, frequency) ==
    Then(w, IF w.rf_gen.synth # None
            THEN IF channel \in {0, 1}
                 THEN Synth_write(Called(w, "rf", "set_frequency", <<channel, frequency>>),
                                  "frequency", <<channel, frequency>>)
                 ELSE Raise(Called(w, "rf", "set_frequency", <<channel, frequency>>),
                            "IndexError")
            ELSE Called(w, "rf", "set_frequency", <<channel, frequency>>))

RFGenerator_set_power(w, channel, power) ==
    Then(w, IF w.rf_gen.synth # None
            THEN IF channel \in {0, 1}
                 THEN Synth_write(Called(w, "rf", "set_power", <<channel, power>>),
                                  "power", <<channel, power>>)
                 ELSE Raise(Called(w, "rf", "set_power", <<channel, power>>),
                            "IndexError")
            ELSE Called(w, "rf", "set_power", <<channel, power>>))

TriggerModes == {"no_trigger", "full_sweep", "step_sweep"}

mode_mapping(mode) ==
    CASE mode = "no_trigger" -> 0
      [] mode = "full_sweep" -> 1
      [] mode = "step_sweep" -> 2

RFGenerator_set_trigger_mode(w, mode) ==
    Then(w, IF w.rf_gen.synth # None /\ mode \in TriggerModes
            THEN Synth_write(Called(w, "rf", "set_trigger_mode", <<mode>>),
                             "trig_function", RInt(mode_mapping(mode)))
            ELSE Called(w, "rf", "set_trigger_mode", <<mode>>))

StepTimeMin == 4
StepTimeMax == 10000

\* if 4 <= step_time <= 10000: self.synth.write("sweep_time_step", step_time)
Synth_write_step_time(w, step_time) ==
    IF RLe(RInt(StepTimeMin), step_time) /\ RLe(step_time, RInt(StepTimeMax))
    THEN Synth_write(w, "sweep_time_step", step_time)
    ELSE w

RFGenerator_configure_differential_sweep(w, f_low, f_high, f_step, diff_freq, step_time, trigger_mode) ==
    Then(w, IF w.rf_gen.synth # None
            THEN LET w0 == Called(w, "rf", "configure_differential_sweep",
                                  <<f_low, f_high, f_step, diff_freq, step_time>>)
                     w1 == Synth_write(w0, "sweep_freq_low", f_low)
                     w2 == Synth_write(w1, "sweep_freq_high", f_high)
                     w3 == Synth_write(w2, "sweep_freq_step", f_step)
                     w4 == Synth_write(w3, "sweep_diff_meth", RInt(1))
                     w5 == Synth_write(w4, "sweep_diff_freq", diff_freq)
                     w6 == Synth_write_step_time(w5, step_time)
                 IN  RFGenerator_set_trigger_mode(w6, trigger_mode)
            ELSE Called(w, "rf", "configure_differential_sweep",
                        <<f_low, f_high, f_step, diff_freq, step_time>>))

RFGenerator_enable_sweep(w, enable) ==
    Then(w, IF w.rf_gen.synth # None
            THEN Synth_write(Called(w, "rf", "enable_sweep", <<enable>>),
                             "sweep_enable", <<enable>>)
            ELSE Called(w, "rf", "enable_sweep", <<enable>>))

\* param in self.synth[channel].__dict__ is a plain attribute lookup: nothing
\* goes over the serial link, and every exception is caught.
RFGenerator_read_parameter(w, channel, supported) ==
    Then(w, IF w.rf_gen.synth # None /\ channel \in {0, 1} /\ supported
            THEN Return(Called(w, "rf", "read_parameter", <<channel>>), "value")
            ELSE Return(Called(w, "rf", "read_parameter", <<channel>>), None))

MinPower == 80   \* written as -80 dBm

RFGenerator_shutdown(w) ==
    Then(w, IF w.rf_gen.synth # None
            THEN LET w0 == Called(w, "rf", "shutdown", <<>>)
                     w1 == Synth_write(w0, "sweep_enable", <<FALSE>>)
                     w2 == Synth_write(w1, "power", <<0, -MinPower>>)
                     w3 == Synth_write(w2, "power", <<1, -MinPower>>)
                     w4 == RFGenerator_disable(w3, 0)
                     w5 == RFGenerator_disable(w4, 1)
                 IN  Synth_close(w5)
            ELSE Called(w, "rf", "shutdown", <<>>))

-----------------------------------------------------------------------------
(* devices/RedPitayaSignalGenerator.py *)

\* self.pyrpl is None or a Pyrpl object; asg0/asg1 hold the last setup(...)
\* each generator received, out0/out1 the last output_direct written.
RedPitayaSignalGenerator_init ==
    [pyrpl |-> FALSE, asg0 |-> Unset, asg1 |-> Unset, out0 |-> Unset, out1 |-> Unset]

RedPitayaSignalGenerator_connect(w, ok) ==
    Then(w, LET w1 == Called(w, "signal_gen", "connect", <<>>)
            IN  IF ok
                THEN [w1 EXCEPT !.signal_gen.pyrpl = TRUE,
                                !.connected = @ \cup {"signal_gen"}]
                ELSE w1)

DutyMax == 100

\* asg.setup(waveform="square", frequency=1/period, amplitude=(high-low)/2,
\*           offset=(high+low)/2, trigger_source="immediately")
Asg0_setup(w, high_level, low_level, period) ==
    LET frequency == RDiv(RInt(1), period)
        amplitude == RDiv(RSub(high_level, low_level), RInt(2))
        offset    == RDiv(RAdd(high_level, low_level), RInt(2))
    IN  [Sent(w, "signal_gen", "asg0.setup", <<"square", frequency, amplitude, offset>>)
            EXCEPT !.signal_gen.asg0 = <<"square", frequency, amplitude, offset>>]

\* Mutant: the period check is missing.
RedPitayaSignalGenerator_set_trigger_pulse_noperiod(w, high_level, low_level, period, duty_cycle) ==
    Then(w, IF w.signal_gen.pyrpl
               /\ RLe(RInt(0), duty_cycle) /\ RLe(duty_cycle, RInt(DutyMax))
            THEN Asg0_setup(Called(w, "signal_gen", "set_trigger_pulse",
                                   <<high_level, low_level, period, duty_cycle>>),
                            high_level, low_level, period)
            ELSE Called(w, "signal_gen", "set_trigger_pulse",
                        <<high_level, low_level, period, duty_cycle>>))

RedPitayaSignalGenerator_set_trigger_pulse(w, high_level, low_level, period, duty_cycle) ==
    Then(w, IF w.signal_gen.pyrpl
            THEN IF ~(RLe(RInt(0), duty_cycle) /\ RLe(duty_cycle, RInt(DutyMax)))
                 THEN Called(w, "signal_gen", "set_trigger_pulse",
                             <<high_level, low_level, period, duty_cycle>>)
                 ELSE IF RLe(period, RInt(0))
                 THEN Called(w, "signal_gen", "set_trigger_pulse",
                             <<high_level, low_level, period, duty_cycle>>)
                 ELSE Asg0_setup(Called(w, "signal_gen", "set_trigger_pulse",
                                        <<high_level, low_level, period, duty_cycle>>),
                                 high_level, low_level, period)
            ELSE Called(w, "signal_gen", "set_trigger_pulse",
                        <<high_level, low_level, period, duty_cycle>>))

DcMax == <<9, 5>>   \* 1.8

\* voltage = max(0, min(1.8, voltage)); asg.setup(waveform="dc", offset=voltage)
Asg1_setup(w, voltage) ==
    [Sent(w, "signal_gen", "asg1.setup", <<"dc", RMax(RInt(0), RMin(DcMax, voltage))>>)
        EXCEPT !.signal_gen.asg1 = <<"dc", RMax(RInt(0), RMin(DcMax, voltage))>>]

RedPitayaSignalGenerator_set_dc_voltage(w, voltage) ==
    Then(w, IF w.signal_gen.pyrpl
            THEN Asg1_setup(Called(w, "signal_gen", "set_dc_voltage", <<voltage>>), voltage)
            ELSE Called(w, "signal_gen", "set_dc_voltage", <<voltage>>))

Asg_output_off(w, n) ==
    IF n = 0
    THEN [Sent(w, "signal_gen", "asg0.output_direct", <<"off">>)
             EXCEPT !.signal_gen.out0 = <<"off">>]
    ELSE [Sent(w, "signal_gen", "asg1.output_direct", <<"off">>)
             EXCEPT !.signal_gen.out1 = <<"off">>]

RedPitayaSignalGenerator_disable_outputs(w) ==
    Then(w, IF w.signal_gen.pyrpl
            THEN Asg_output_off(
                     Asg_output_off(Called(w, "signal_gen", "disable_outputs", <<>>), 0), 1)
            ELSE Called(w, "signal_gen", "disable_outputs", <<>>))

RedPitayaSignalGenerator_disconnect(w) ==
    Then(w, IF w.signal_gen.pyrpl
            THEN [Called(w, "signal_gen", "disconnect", <<>>)
                     EXCEPT !.signal_gen.pyrpl = FALSE]
            ELSE Called(w, "signal_gen", "disconnect", <<>>))

-----------------------------------------------------------------------------
(* devices/TektroAFG.py *)

\* self.instrument is None, an open VISA resource, or (after disconnect) the
\* closed resource object, on which a write raises.  ch1/ch2 hold the last
\* settings written to each source, out the last OUTPut state written.
TektronixAFG3000C_init ==
    [instrument |-> None, ch1 |-> Unset, ch2 |-> Unset, out |-> Unset]

\* connect: open_resource fails, or it succeeds and *RST is written, or it
\* succeeds and the *RST write raises (the handle is already assigned).
AfgConnectIO == {"ok", "open_error", "reset_error"}

TektronixAFG3000C_connect(w, io) ==
    Then(w, CASE io = "ok" ->
                   [Sent(Called(w, "afg", "connect", <<>>), "afg", "*RST", <<>>)
                       EXCEPT !.afg = [TektronixAFG3000C_init EXCEPT !.instrument = "open"],
                              !.connected = @ \cup {"afg"}]
              [] io = "open_error"  -> Called(w, "afg", "connect", <<>>)
              [] io = "reset_error" ->
                   [Called(w, "afg", "connect", <<>>) EXCEPT !.afg.instrument = "open"])

\* One instrument.write(...); reg names the channel state it changes.
Afg_write(w, cmd, arg, reg, value) ==
    Then(w, IF w.afg.instrument = "closed"
            THEN Raise(w, "ClosedError")
            ELSE [Sent(w, "afg", cmd, arg) EXCEPT !.afg[reg] = value])

TektronixAFG3000C_set_trigger_pulse(w, high_level, low_level, period, duty_cycle) ==
    Then(w, IF w.afg.instrument = None
            THEN Called(w, "afg", "set_trigger_pulse",
                        <<high_level, low_level, period, duty_cycle>>)
            ELSE IF ~(RLe(RInt(0), duty_cycle) /\ RLe(duty_cycle, RInt(DutyMax)))
            THEN Called(w, "afg", "set_trigger_pulse",
                        <<high_level, low_level, period, duty_cycle>>)
            ELSE IF RLe(period, RInt(0))
            THEN Called(w, "afg", "set_trigger_pulse",
                        <<high_level, low_level, period, duty_cycle>>)
            ELSE LET w0 == Called(w, "afg", "set_trigger_pulse",
                                  <<high_level, low_level, period, duty_cycle>>)
                     w1 == Afg_write(w0, "SOURce1:FUNCtion PULSe", <<>>,
                                     "ch1", <<"PULSe">>)
                     w2 == Afg_write(w1, "SOURce1:PULSe:PERiod", <<period>>,
                                     "ch1", <<"PULSe", period>>)
                     w3 == Afg_write(w2, "SOURce1:PULSe:DCYCle", <<duty_cycle>>,
                                     "ch1", <<"PULSe", period, duty_cycle>>)
                     w4 == Afg_write(w3, "SOURce1:VOLTage:HIGH", <<high_level>>,
                                     "ch1", <<"PULSe", period, duty_cycle, high_level>>)
                 IN  Afg_write(w4, "SOURce1:VOLTage:LOW", <<low_level>>,
                               "ch1", <<"PULSe", period, duty_cycle, high_level, low_level>>))

AfgDcMax == 5

\* voltage = max(-5, min(5, voltage))
Afg_clamp(voltage) == RMax(RInt(-AfgDcMax), RMin(RInt(AfgDcMax), voltage))

TektronixAFG3000C_set_dc_voltage(w, voltage) ==
    Then(w, IF w.afg.instrument = None
            THEN Called(w, "afg", "set_dc_voltage", <<voltage>>)
            ELSE Afg_write(
                     Afg_write(Called(w, "afg", "set_dc_voltage", <<voltage>>),
                               "SOURce2:FUNCtion DC", <<>>, "ch2", <<"DC">>),
                     "SOURce2:VOLTage:OFFSet", <<Afg_clamp(voltage)>>,
                     "ch2", <<"DC", Afg_clamp(voltage)>>))

TektronixAFG3000C_disable_outputs(w) ==
    Then(w, IF w.afg.instrument = None
            THEN Called(w, "afg", "disable_outputs", <<>>)
            ELSE Afg_write(
                     Afg_write(Called(w, "afg", "disable_outputs", <<>>),
                               "OUTPut1 OFF", <<>>, "out", <<"OFF">>),
                     "OUTPut2 OFF", <<>>, "out", <<"OFF", "OFF">>))

\* Resource.close() on an already closed resource does nothing.
TektronixAFG3000C_disconnect(w) ==
    Then(w, IF w.afg.instrument # None
            THEN [Sent(Called(w, "afg", "disconnect", <<>>), "afg", "close", <<>>)
                     EXCEPT !.afg.instrument = "closed"]
            ELSE Called(w, "afg", "disconnect", <<>>))

-----------------------------------------------------------------------------
(* devices/RigolSA.py *)

\* self.sa is None, an open VISA resource, or (after disconnect, which does
\* not reset the field) the closed resource, on which write and query raise.
RigolSA_init == [sa |-> None]

RigolSA_connect(w, ok) ==
    Then(w, IF ok
            THEN [Called(w, "sa", "connect", <<>>)
                     EXCEPT !.sa.sa = "open", !.connected = @ \cup {"sa"}]
            ELSE Called(w, "sa", "connect", <<>>))

Sa_write(w, cmd, arg) ==
    Then(w, IF w.sa.sa = "closed"
            THEN Raise(w, "ClosedError")
            ELSE Sent(w, "sa", cmd, arg))

RigolSA_set_center_frequency(w, freq_hz) ==
    Then(w, IF w.sa.sa # None
            THEN Sa_write(Called(w, "sa", "set_center_frequency", <<freq_hz>>),
                          ":SENSe:FREQuency:CENTer", <<freq_hz>>)
            ELSE Called(w, "sa", "set_center_frequency", <<freq_hz>>))

RigolSA_set_rbw_vbw(w, rbw_hz, vbw_hz) ==
    Then(w, IF w.sa.sa # None
            THEN Sa_write(
                     Sa_write(Called(w, "sa", "set_rbw_vbw", <<rbw_hz, vbw_hz>>),
                              ":SENSe:BANDwidth:RESolution", <<rbw_hz>>),
                     ":SENSe:BANDwidth:VIDeo", <<vbw_hz>>)
            ELSE Called(w, "sa", "set_rbw_vbw", <<rbw_hz, vbw_hz>>))

RigolSA_enable_zero_span_mode(w) ==
    Then(w, IF w.sa.sa # None
            THEN Sa_write(Called(w, "sa", "enable_zero_span_mode", <<>>),
                          ":SENSe:FREQuency:SPAN 0", <<>>)
            ELSE Called(w, "sa", "enable_zero_span_mode", <<>>))

RigolSA_set_sweep_time(w, time_sec) ==
    Then(w, IF w.sa.sa # None
            THEN Sa_write(Called(w, "sa", "set_sweep_time", <<time_sec>>),
                          ":SWE:TIME", <<time_sec>>)
            ELSE Called(w, "sa", "set_sweep_time", <<time_sec>>))

\* mode and edge are given in upper case already.
RigolSA_set_trigger(w, mode, edge) ==
    Then(w, IF w.sa.sa # None
            THEN IF mode = "EXT"
                 THEN Sa_write(
                          Sa_write(Called(w, "sa", "set_trigger", <<mode, edge>>),
                                   ":TRIGger:SEQuence:SOURce", <<mode>>),
                          ":TRIGger:SEQuence:EXTernal:SLOPe", <<edge>>)
                 ELSE Sa_write(Called(w, "sa", "set_trigger", <<mode, edge>>),
                               ":TRIGger:SEQuence:SOURce", <<mode>>)
            ELSE Called(w, "sa", "set_trigger", <<mode, edge>>))

RigolSA_start_sweep(w, continuous) ==
    Then(w, IF w.sa.sa # None
            THEN IF ~continuous
                 THEN Sa_write(
                          Sa_write(Called(w, "sa", "start_sweep", <<continuous>>),
                                   ":INITiate:CONTinuous", <<"OFF">>),
                          ":INITiate:IMMediate", <<>>)
                 ELSE Sa_write(Called(w, "sa", "start_sweep", <<continuous>>),
                               ":INITiate:CONTinuous", <<"ON">>)
            ELSE Called(w, "sa", "start_sweep", <<continuous>>))

\* What the analyzer answers to :FETCh? : a data string, or nothing within
\* the 5 s timeout (query then raises, and fetch_trace catches nothing).
Traces  == {"trace_a"}
FetchIO == Traces \cup {"timeout"}

\* self.sa.query(":FETCh?")
Sa_query(w, io) ==
    Then(w, IF w.sa.sa = "closed"
            THEN Raise(w, "ClosedError")
            ELSE IF io = "timeout"
            THEN Raise(Sent(w, "sa", ":FETCh?", <<>>), "VisaIOError")
            ELSE Returned(Sent(w, "sa", ":FETCh?", <<>>), "sa", "fetch_trace", io))

RigolSA_fetch_trace(w, io) ==
    Then(w, IF w.sa.sa # None
            THEN Sa_query(Called(w, "sa", "fetch_trace", <<>>), io)
            ELSE Returned(Called(w, "sa", "fetch_trace", <<>>), "sa", "fetch_trace", None))

\* Resource.close() on an already closed resource does nothing.
RigolSA_disconnect(w) ==
    Then(w, IF w.sa.sa # None
            THEN [Sent(Called(w, "sa", "disconnect", <<>>), "sa", "close", <<>>)
                     EXCEPT !.sa.sa = "closed"]
            ELSE Called(w, "sa", "disconnect", <<>>))

-----------------------------------------------------------------------------
(* devices/WaveMeter.py *)

\* What the HTTP poll does: a JSON object with a frequency; a request error
\* (connection, timeout, HTTP status, undecodable body), which is caught; a
\* JSON object without "frequency"; a JSON body that is no container (null,
\* a number), on which the `in` test raises TypeError, which is not caught.
Freqs       == {"freq_a"}
WavemeterIO == Freqs \cup {"request_error", "no_key", "json_scalar"}

Http_get(w, channel) == Sent(w, "wavemeter", "GET /api/freq", <<channel>>)

Wavemeter_get_frequency(w, channel, io) ==
    Then(w, CASE io \in Freqs ->
                   Returned(Http_get(Called(w, "wavemeter", "get_frequency", <<channel>>),
                                     channel), "wavemeter", "get_frequency", io)
              [] io \in {"request_error", "no_key"} ->
                   Returned(Http_get(Called(w, "wavemeter", "get_frequency", <<channel>>),
                                     channel), "wavemeter", "get_frequency", None)
              [] io = "json_scalar" ->
                   Raise(Http_get(Called(w, "wavemeter", "get_frequency", <<channel>>),
                                  channel), "TypeError"))

-----------------------------------------------------------------------------
(* bragg.py: ExperimentController *)

\* A step of the orchestrator itself (list append, time.sleep).
Local(w, c, a) ==
    [w EXCEPT !.trace = Append(@, [kind |-> "local", dev |-> "controller",
                                   cmd |-> c, arg |-> a])]

\* self.laser.set_edfa_power(...): MuquansLaser defines set_power, and no
\* set_edfa_power, so the attribute lookup raises before anything is called.
MuquansLaser_set_edfa_power(w, power) == Then(w, Raise(w, "AttributeError"))

ExperimentController_connect_all(w, ok_laser, ok_signal_gen, ok_sa) ==
    RigolSA_connect(
        RedPitayaSignalGenerator_connect(
            MuquansLaser_connect(w, ok_laser), ok_signal_gen), ok_sa)

sweep_duration(f_low, f_high, f_step, step_time) ==
    RMul(RDiv(RSub(f_high, f_low), f_step), step_time)

PeriodMargin == <<11, 10>>   \* 1.1

ExperimentController_set_experiment(w, cfg, io) ==
    LET w1 == MuquansLaser_seed_on(w, io)
        w2 == MuquansLaser_set_edfa_power(w1, cfg.edfa_power)
        w3 == RFGenerator_configure_differential_sweep(w2, cfg.f_low, cfg.f_high,
                  cfg.f_step, cfg.diff_freq, cfg.step_time, "full_sweep")
        w4 == RedPitayaSignalGenerator_set_trigger_pulse(w3, cfg.trigger_high,
                  cfg.trigger_low,
                  RMul(PeriodMargin,
                       sweep_duration(cfg.f_low, cfg.f_high, cfg.f_step, cfg.step_time)),
                  cfg.trigger_duty)
        w5 == RedPitayaSignalGenerator_set_dc_voltage(w4, cfg.dc_voltage)
        w6 == RigolSA_set_center_frequency(w5, cfg.sa_center_freq)
        w7 == RigolSA_set_rbw_vbw(w6, cfg.rbw, cfg.vbw)
        w8 == RigolSA_enable_zero_span_mode(w7)
    IN  RigolSA_set_trigger(w8, "EXT", "POS")

\* Mutant: the ramp divides by num_steps.
ramp_voltage_off_by_one(i, n) == RMul(RDiv(RInt(i), RInt(n)), DcMax)

\* voltage = (step / (num_steps - 1)) * 1.8, for num_steps # 1
ramp_voltage(i, n) == RMul(RDiv(RInt(i), RInt(n - 1)), DcMax)

StepResult(i, voltage, laser_freq, trace_data) ==
    [step |-> i, voltage |-> voltage, laser_frequency |-> laser_freq,
     spectrum |-> trace_data]

\* Mutant: the entry is put at the front of the list.
results_prepend(w, e) ==
    Then(w, [Local(w, "append", <<e.step>>) EXCEPT !.results = <<e>> \o @])

\* results.append({...})
results_append(w, e) ==
    Then(w, [Local(w, "append", <<e.step>>) EXCEPT !.results = Append(@, e)])

\* time.sleep(delay)
time_sleep(w, delay) == Then(w, Return(Local(w, "sleep", <<delay>>), None))

WavemeterChannel == 3

\* Mutant: a single step is given 0 V instead of dividing by zero.
ExperimentController_run_experiment_body_guarded(w, n, i, delay, wio, sio) ==
    LET v  == IF n - 1 = 0 THEN RInt(0) ELSE ramp_voltage(i, n)
        w1 == RedPitayaSignalGenerator_set_dc_voltage(w, v)
        w2 == Wavemeter_get_frequency(w1, WavemeterChannel, wio)
        w3 == RigolSA_start_sweep(w2, FALSE)
        w4 == RigolSA_fetch_trace(w3, sio)
        w5 == results_append(w4, StepResult(i, v, w2.ret, w4.ret))
    IN  time_sleep(w5, delay)

\* Mutant: the trace is fetched before the sweep is started.
ExperimentController_run_experiment_body_fetch_first(w, n, i, delay, wio, sio) ==
    IF n - 1 = 0
    THEN Raise(w, "ZeroDivisionError")
    ELSE LET w1 == RedPitayaSignalGenerator_set_dc_voltage(w, ramp_voltage(i, n))
             w2 == Wavemeter_get_frequency(w1, WavemeterChannel, wio)
             w3 == RigolSA_fetch_trace(w2, sio)
             w4 == RigolSA_start_sweep(w3, FALSE)
             w5 == results_append(w4, StepResult(i, ramp_voltage(i, n), w2.ret, w3.ret))
         IN  time_sleep(w5, delay)

\* One iteration of run_experiment's loop.
ExperimentController_run_experiment_body(w, n, i, delay, wio, sio) ==
    IF n - 1 = 0
    THEN Raise(w, "ZeroDivisionError")
    ELSE LET w1 == RedPitayaSignalGenerator_set_dc_voltage(w, ramp_voltage(i, n))
             w2 == Wavemeter_get_frequency(w1, WavemeterChannel, wio)
             w3 == RigolSA_start_sweep(w2, FALSE)
             w4 == RigolSA_fetch_trace(w3, sio)
             w5 == results_append(w4, StepResult(i, ramp_voltage(i, n), w2.ret, w4.ret))
         IN  time_sleep(w5, delay)

\* Mutant: the laser connection is closed before the analyzer's.
ExperimentController_shutdown_laser_first(w, io1, io2) ==
    LET w1 == MuquansLaser_shutdown(w, io1, io2)
        w2 == RFGenerator_shutdown(w1)
        w3 == RedPitayaSignalGenerator_disable_outputs(w2)
        w4 == MuquansLaser_disconnect(w3)
        w5 == RigolSA_disconnect(w4)
    IN  RedPitayaSignalGenerator_disconnect(w5)

ExperimentController_shutdown(w, io1, io2) ==
    LET w1 == MuquansLaser_shutdown(w, io1, io2)
        w2 == RFGenerator_shutdown(w1)
        w3 == RedPitayaSignalGenerator_disable_outputs(w2)
        w4 == RigolSA_disconnect(w3)
        w5 == MuquansLaser_disconnect(w4)
    IN  RedPitayaSignalGenerator_disconnect(w5)

-----------------------------------------------------------------------------
(* Arguments the calls are tried with *)

\* set_experiment's defaults (bragg.py:35-48), the script's call
\* (bragg.py:161-166), and a call with a step time inside the synthesizer's
\* range; frequencies in MHz.
DefaultCfg ==
    [edfa_power |-> RInt(1), f_low |-> RInt(750), f_high |-> RInt(3000),
     f_step |-> RInt(2), diff_freq |-> RInt(5), step_time |-> <<1, 1000>>,
     trigger_high |-> <<9, 5>>, trigger_low |-> RInt(0), trigger_duty |-> RInt(98),
     dc_voltage |-> <<3, 2>>, sa_center_freq |-> RInt(5),
     rbw |-> <<1, 1000>>, vbw |-> <<1, 1000>>]

ScriptCfg ==
    [DefaultCfg EXCEPT !.edfa_power = <<6, 5>>, !.f_low = RInt(800),
                       !.f_high = RInt(2500), !.f_step = RInt(5),
                       !.diff_freq = RInt(10), !.step_time = <<2, 1000>>,
                       !.trigger_duty = RInt(90), !.sa_center_freq = RInt(10)]

MsCfg == [DefaultCfg EXCEPT !.step_time = RInt(4)]

Cfgs == {DefaultCfg, ScriptCfg, MsCfg}

Delays == {0, 2}

\* MuquansLaser.set_power: below, at and inside the range, at its top, above.
Powers == {<<-1, 2>>, RInt(0), <<6, 5>>, <<5, 2>>, RInt(3)}

\* set_trigger_pulse: the script's period 0.748 s, and periods the check rejects;
\* duty cycles below, at the top of and above [0, 100].
Periods == {<<187, 250>>, RInt(0), RInt(-1)}
Duties  == {RInt(-1), RInt(100), RInt(101)}

\* set_dc_voltage: below, inside and above both devices' ranges.
Voltages == {RInt(-6), <<3, 2>>, RInt(6)}

-----------------------------------------------------------------------------
(* State machine *)

Commit(w) ==
    /\ laser' = w.laser
    /\ rf_gen' = w.rf_gen
    /\ signal_gen' = w.signal_gen
    /\ sa' = w.sa
    /\ afg' = w.afg
    /\ trace' = w.trace
    /\ exc' = w.exc
    /\ ret' = w.ret
    /\ results' = w.results
    /\ connected' = w.connected

Invoke(op, args) == call' = [op |-> op, args |-> args]

Init ==
    /\ laser = MuquansLaser_init
    /\ \E ok \in BOOLEAN :
          /\ rf_gen = RFGenerator_init(ok)
          /\ connected = IF ok THEN {"rf"} ELSE {}
    /\ signal_gen = RedPitayaSignalGenerator_init
    /\ sa = RigolSA_init
    /\ afg = TektronixAFG3000C_init
    /\ trace = <<>>
    /\ exc = NoExc
    /\ ret = None
    /\ call = [op |-> "__init__", args |-> <<>>]
    /\ pc = "idle"
    /\ num_steps = 0
    /\ step = 0
    /\ results = <<>>

connect_all ==
    /\ pc = "idle"
    /\ \E a, b, c \in BOOLEAN : Commit(ExperimentController_connect_all(Enter, a, b, c))
    /\ Invoke("connect_all", <<>>)
    /\ UNCHANGED <<pc, num_steps, step>>

set_experiment ==
    /\ pc = "idle"
    /\ \E cfg \in Cfgs, io \in LaserIO :
          /\ Commit(ExperimentController_set_experiment(Enter, cfg, io))
          /\ Invoke("set_experiment", <<cfg>>)
    /\ UNCHANGED <<pc, num_steps, step>>

\* run_experiment up to the loop header: results = []
run_experiment ==
    /\ pc = "idle"
    /\ \E n \in 0..MaxSteps, delay \in Delays :
          /\ num_steps' = n
          /\ Invoke("run_experiment", <<n, delay>>)
    /\ Commit(Enter)
    /\ step' = 0
    /\ pc' = "loop"

\* One iteration; an exception leaves the loop and the call, and the frame's
\* list is gone.
run_experiment_step ==
    /\ pc = "loop"
    /\ step < num_steps
    /\ \E wio \in WavemeterIO, sio \in FetchIO :
          LET w == ExperimentController_run_experiment_body(
                       [World EXCEPT !.trace = <<>>], num_steps, step,
                       call.args[2], wio, sio)
          IN  IF w.exc = NoExc
              THEN Commit(w) /\ step' = step + 1 /\ pc' = "loop"
              ELSE Commit([w EXCEPT !.results = <<>>]) /\ step' = step /\ pc' = "idle"
    /\ UNCHANGED <<call, num_steps>>

\* return results
run_experiment_return ==
    /\ pc = "loop"
    /\ step >= num_steps
    /\ Commit([World EXCEPT !.ret = "results"])
    /\ pc' = "idle"
    /\ UNCHANGED <<call, num_steps, step>>

shutdown ==
    /\ pc = "idle"
    /\ \E io1, io2 \in LaserIO : Commit(ExperimentController_shutdown(Enter, io1, io2))
    /\ Invoke("shutdown", <<>>)
    /\ UNCHANGED <<pc, num_steps, step>>

Next ==
    \/ connect_all
    \/ set_experiment
    \/ run_experiment
    \/ run_experiment_step
    \/ run_experiment_return
    \/ shutdown

Spec == Init /\ [][Next]_vars

-----------------------------------------------------------------------------
(* The laser driver called on its own *)

Idle == UNCHANGED <<pc, num_steps, step>>

laser_connect ==
    /\ \E ok \in BOOLEAN : Commit(MuquansLaser_connect(Enter, ok))
    /\ Invoke("laser.connect", <<>>)
    /\ Idle

laser_disconnect ==
    /\ Commit(MuquansLaser_disconnect(Enter))
    /\ Invoke("laser.disconnect", <<>>)
    /\ Idle

laser_seed_on ==
    /\ \E io \in LaserIO : Commit(MuquansLaser_seed_on(Enter, io))
    /\ Invoke("laser.seed_on", <<>>)
    /\ Idle

laser_seed_off ==
    /\ \E io \in LaserIO : Commit(MuquansLaser_seed_off(Enter, io))
    /\ Invoke("laser.seed_off", <<>>)
    /\ Idle

laser_set_power ==
    /\ \E power \in Powers, io \in LaserIO :
          /\ Commit(MuquansLaser_set_power(Enter, power, io))
          /\ Invoke("laser.set_power", <<power>>)
    /\ Idle

laser_shutdown_edfa ==
    /\ \E io \in LaserIO : Commit(MuquansLaser_shutdown_edfa(Enter, io))
    /\ Invoke("laser.shutdown_edfa", <<>>)
    /\ Idle

laser_shutdown ==
    /\ \E io1, io2 \in LaserIO : Commit(MuquansLaser_shutdown(Enter, io1, io2))
    /\ Invoke("laser.shutdown", <<>>)
    /\ Idle

LaserNext ==
    \/ laser_connect
    \/ laser_disconnect
    \/ laser_seed_on
    \/ laser_seed_off
    \/ laser_set_power
    \/ laser_shutdown_edfa
    \/ laser_shutdown

LaserSpec == Init /\ [][LaserNext]_vars

-----------------------------------------------------------------------------
(* The two pulse/voltage generator drivers called on their own *)

TriggerHigh == <<9, 5>>
TriggerLow  == RInt(0)

signal_gen_connect ==
    /\ \E ok \in BOOLEAN : Commit(RedPitayaSignalGenerator_connect(Enter, ok))
    /\ Invoke("signal_gen.connect", <<>>)
    /\ Idle

signal_gen_set_trigger_pulse ==
    /\ \E period \in Periods, duty \in Duties :
          /\ Commit(RedPitayaSignalGenerator_set_trigger_pulse(
                        Enter, TriggerHigh, TriggerLow, period, duty))
          /\ Invoke("signal_gen.set_trigger_pulse", <<TriggerHigh, TriggerLow, period, duty>>)
    /\ Idle

signal_gen_set_dc_voltage ==
    /\ \E v \in Voltages :
          /\ Commit(RedPitayaSignalGenerator_set_dc_voltage(Enter, v))
          /\ Invoke("signal_gen.set_dc_voltage", <<v>>)
    /\ Idle

signal_gen_disable_outputs ==
    /\ Commit(RedPitayaSignalGenerator_disable_outputs(Enter))
    /\ Invoke("signal_gen.disable_outputs", <<>>)
    /\ Idle

signal_gen_disconnect ==
    /\ Commit(RedPitayaSignalGenerator_disconnect(Enter))
    /\ Invoke("signal_gen.disconnect", <<>>)
    /\ Idle

afg_connect ==
    /\ \E io \in AfgConnectIO : Commit(TektronixAFG3000C_connect(Enter, io))
    /\ Invoke("afg.connect", <<>>)
    /\ Idle

afg_set_trigger_pulse ==
    /\ \E period \in Periods, duty \in Duties :
          /\ Commit(TektronixAFG3000C_set_trigger_pulse(
                        Enter, TriggerHigh, TriggerLow, period, duty))
          /\ Invoke("afg.set_trigger_pulse", <<TriggerHigh, TriggerLow, period, duty>>)
    /\ Idle

afg_set_dc_voltage ==
    /\ \E v \in Voltages :
          /\ Commit(TektronixAFG3000C_set_dc_voltage(Enter, v))
          /\ Invoke("afg.set_dc_voltage", <<v>>)
    /\ Idle

afg_disable_outputs ==
    /\ Commit(TektronixAFG3000C_disable_outputs(Enter))
    /\ Invoke("afg.disable_outputs", <<>>)
    /\ Idle

afg_disconnect ==
    /\ Commit(TektronixAFG3000C_disconnect(Enter))
    /\ Invoke("afg.disconnect", <<>>)
    /\ Idle

PulseNext ==
    \/ signal_gen_connect
    \/ signal_gen_set_trigger_pulse
    \/ signal_gen_set_dc_voltage
    \/ signal_gen_disable_outputs
    \/ signal_gen_disconnect
    \/ afg_connect
    \/ afg_set_trigger_pulse
    \/ afg_set_dc_voltage
    \/ afg_disable_outputs
    \/ afg_disconnect

PulseSpec == Init /\ [][PulseNext]_vars

-----------------------------------------------------------------------------
(* The RF generator driver called on its own *)

\* Channels 0 and 1, and one the synthesizer does not have.
Channels == {0, 1, 2}

\* Step times in the unit the caller uses: the 1 ms of set_experiment's
\* default given in seconds, below, at both ends of and above [4, 10000].
StepTimes == {<<1, 1000>>, RInt(3), RInt(4), RInt(10000), RInt(10001)}

\* The sweep ranges of set_experiment's defaults and of the script.
Sweeps == {DefaultCfg, ScriptCfg}

rf_enable ==
    /\ \E ch \in Channels :
          /\ Commit(RFGenerator_enable(Enter, ch))
          /\ Invoke("rf.enable", <<ch>>)
    /\ Idle

rf_disable ==
    /\ \E ch \in Channels :
          /\ Commit(RFGenerator_disable(Enter, ch))
          /\ Invoke("rf.disable", <<ch>>)
    /\ Idle

rf_set_frequency ==
    /\ \E ch \in Channels :
          /\ Commit(RFGenerator_set_frequency(Enter, ch, RInt(1000)))
          /\ Invoke("rf.set_frequency", <<ch, RInt(1000)>>)
    /\ Idle

rf_set_power ==
    /\ \E ch \in Channels :
          /\ Commit(RFGenerator_set_power(Enter, ch, RInt(-10)))
          /\ Invoke("rf.set_power", <<ch, RInt(-10)>>)
    /\ Idle

rf_set_trigger_mode ==
    /\ \E mode \in TriggerModes \cup {"burst"} :
          /\ Commit(RFGenerator_set_trigger_mode(Enter, mode))
          /\ Invoke("rf.set_trigger_mode", <<mode>>)
    /\ Idle

rf_configure_differential_sweep ==
    /\ \E c \in Sweeps, step_time \in StepTimes, mode \in {"full_sweep", "step_sweep"} :
          /\ Commit(RFGenerator_configure_differential_sweep(
                        Enter, c.f_low, c.f_high, c.f_step, c.diff_freq, step_time, mode))
          /\ Invoke("rf.configure_differential_sweep",
                    <<c.f_low, c.f_high, c.f_step, c.diff_freq, step_time, mode>>)
    /\ Idle

rf_enable_sweep ==
    /\ \E enable \in BOOLEAN :
          /\ Commit(RFGenerator_enable_sweep(Enter, enable))
          /\ Invoke("rf.enable_sweep", <<enable>>)
    /\ Idle

rf_read_parameter ==
    /\ \E ch \in Channels, supported \in BOOLEAN :
          /\ Commit(RFGenerator_read_parameter(Enter, ch, supported))
          /\ Invoke("rf.read_parameter", <<ch, supported>>)
    /\ Idle

rf_shutdown ==
    /\ Commit(RFGenerator_shutdown(Enter))
    /\ Invoke("rf.shutdown", <<>>)
    /\ Idle

RfNext ==
    \/ rf_enable
    \/ rf_disable
    \/ rf_set_frequency
    \/ rf_set_power
    \/ rf_set_trigger_mode
    \/ rf_configure_differential_sweep
    \/ rf_enable_sweep
    \/ rf_read_parameter
    \/ rf_shutdown

RfSpec == Init /\ [][RfNext]_vars

-----------------------------------------------------------------------------
(* Properties *)

IsCall(e, d, m) == e.kind = "call" /\ e.dev = d /\ e.cmd = m
IsReturn(e, d)  == e.kind = "return" /\ e.dev = d

\* No transport operation reached any device during the last call.
NoIo(t) == \A j \in 1..Len(t) : t[j].kind # "io"

\* A power outside [0, 2.5].
OutOfRange(power) == ~(RLe(RInt(0), power) /\ RLe(power, <<5, 2>>))

\* set_trigger_pulse arguments with duty_cycle outside [0, 100] or period <= 0.
BadPulse(args) ==
    \/ RLt(args[4], RInt(0))
    \/ RLt(RInt(100), args[4])
    \/ RLe(args[3], RInt(0))

\* run_experiment has appended at least one entry and the trace is that of
\* the iteration which appended the last one.
StepDone == call.op = "run_experiment" /\ Len(results) >= 1 /\ Len(trace) > 0

Returned_results == call.op = "run_experiment" /\ pc = "idle" /\ ret = "results"

\* C1: with num_steps > 1, the voltage of step i is i/(num_steps-1)*1.8: it is
\* 0 at step 0, 1.8 at the last step, strictly larger than at the step before,
\* and it is the value passed to set_dc_voltage (and, when the generator is
\* connected, the DC offset it is set to).
C1_RampVoltage ==
    (call.op = "run_experiment" /\ num_steps > 1) =>
        /\ \A k \in 1..Len(results) :
              /\ results[k].voltage = Rat(9 * (k - 1), 5 * (num_steps - 1))
              /\ (k = 1 => results[k].voltage = <<0, 1>>)
              /\ (k = num_steps => results[k].voltage = <<9, 5>>)
              /\ (k > 1 => RLt(results[k - 1].voltage, results[k].voltage))
        /\ StepDone =>
              /\ IsCall(trace[1], "signal_gen", "set_dc_voltage")
              /\ trace[1].arg = <<results[Len(results)].voltage>>
              /\ (signal_gen.pyrpl =>
                     signal_gen.asg1 = <<"dc", results[Len(results)].voltage>>)

C1_Witness ==
    /\ Returned_results
    /\ Len(results) >= 3
    /\ signal_gen.pyrpl
    /\ signal_gen.asg1 = <<"dc", <<9, 5>>>>

\* C2: set_experiment passes 1.1 * (f_high - f_low) / f_step * step_time as
\* the period to set_trigger_pulse, after it called
\* configure_differential_sweep.
C2_PeriodFromSweep ==
    call.op = "set_experiment" =>
        \E i, j \in 1..Len(trace) :
            /\ i < j
            /\ IsCall(trace[i], "rf", "configure_differential_sweep")
            /\ IsCall(trace[j], "signal_gen", "set_trigger_pulse")
            /\ LET cfg == call.args[1]
               IN  trace[j].arg[3] =
                       Rat(11 * (cfg.f_high[1] - cfg.f_low[1]) * cfg.step_time[1],
                           10 * cfg.f_step[1] * cfg.step_time[2])

C3_Entries ==
    (call.op = "run_experiment" /\ num_steps >= 2) =>
        /\ \A k \in 1..Len(results) : results[k].step = k - 1
        /\ (Returned_results => Len(results) = num_steps)
        /\ StepDone =>
              LET e == results[Len(results)]
              IN  /\ trace[1].arg = <<e.voltage>>
                  /\ \E j \in 1..Len(trace) : IsReturn(trace[j], "wavemeter")
                  /\ \E j \in 1..Len(trace) : IsReturn(trace[j], "sa")
                  /\ \A j \in 1..Len(trace) :
                        /\ IsReturn(trace[j], "wavemeter") =>
                              trace[j].arg = <<e.laser_frequency>>
                        /\ IsReturn(trace[j], "sa") => trace[j].arg = <<e.spectrum>>

C3_Frame ==
    (pc = "loop" /\ exc' = NoExc) =>
        /\ Len(results') >= Len(results)
        /\ \A k \in 1..Len(results) : results'[k] = results[k]

\* C3: for num_steps >= 2, run_experiment returns num_steps entries, entry k
\* with step = k, each with the voltage commanded in its step and the values
\* the wavemeter and the analyzer handed back in that step (None included),
\* and no later step changes an entry already appended.
C3_ResultList == [](C3_Entries) /\ [][C3_Frame]_vars

C3_Witness ==
    /\ Returned_results
    /\ Len(results) >= 3
    /\ results[1].laser_frequency = None
    /\ results[2].laser_frequency = "freq_a"
    /\ results[2].spectrum = "trace_a"

Devices == {"laser", "rf", "signal_gen", "sa"}

\* C4: no transport operation reaches a device whose connect never succeeded,
\* and a call made only of calls on such devices does nothing and does not
\* raise.
C4_NoCommandUnlessConnected ==
    /\ \A j \in 1..Len(trace) :
          (trace[j].kind = "io" /\ trace[j].dev \in Devices) =>
              trace[j].dev \in connected
    /\ (/\ Len(trace) > 0
        /\ \A j \in 1..Len(trace) :
              /\ trace[j].kind \in {"call", "return"}
              /\ trace[j].dev \in Devices \ connected)
       => exc = NoExc

Fresh ==
    /\ call.op = "__init__"
    /\ ~laser.tn
    /\ rf_gen.synth = None
    /\ ~signal_gen.pyrpl
    /\ sa.sa = None

\* C5: shutdown on a freshly constructed controller with every handle absent
\* raises nothing, sends nothing and leaves every driver as it was.
C5_ShutdownBeforeConnect ==
    [][(Fresh /\ call'.op = "shutdown") =>
          /\ exc' = NoExc
          /\ NoIo(trace')
          /\ <<laser, rf_gen, signal_gen, sa>>' = <<laser, rf_gen, signal_gen, sa>>]_vars

C5_Witness ==
    /\ call.op = "shutdown"
    /\ connected = {}
    /\ exc = NoExc
    /\ \E j \in 1..Len(trace) : IsCall(trace[j], "signal_gen", "disconnect")

\* C6: set_power with a power outside [0, 2.5] raises ValueError, sends
\* nothing, and leaves current_power and laser_on (and the connection) as
\* they were, connected or not.
C6_SetPowerRejects ==
    [][(call'.op = "laser.set_power" /\ OutOfRange(call'.args[1])) =>
          /\ exc' = "ValueError"
          /\ NoIo(trace')
          /\ laser' = laser]_vars

C6_Witness ==
    /\ call.op = "laser.set_power"
    /\ OutOfRange(call.args[1])
    /\ exc = "ValueError"
    /\ laser.tn
    /\ laser.laser_on
    /\ laser.current_power = <<6, 5>>

\* C7: set_trigger_pulse with duty_cycle outside [0, 100] or period <= 0
\* returns without raising and without any setup or write, so that both
\* outputs of both generators keep their configuration.
C7_BadPulseIgnored ==
    [][(/\ call'.op \in {"signal_gen.set_trigger_pulse", "afg.set_trigger_pulse"}
        /\ BadPulse(call'.args)) =>
          /\ exc' = NoExc
          /\ NoIo(trace')
          /\ signal_gen' = signal_gen
          /\ afg' = afg]_vars

C7_Witness ==
    /\ call.op = "signal_gen.set_trigger_pulse"
    /\ BadPulse(call.args)
    /\ signal_gen.pyrpl
    /\ signal_gen.asg0 # Unset
    /\ signal_gen.asg1 # Unset
    /\ afg.instrument = "open"
    /\ afg.ch1 # Unset

\* C8: whatever the wavemeter read and the trace fetch of a step do,
\* run_experiment (num_steps >= 2) raises nothing and returns num_steps entries.
C8_FailedReadsAreNull ==
    (call.op = "run_experiment" /\ num_steps >= 2) =>
        /\ exc = NoExc
        /\ (pc = "idle" => ret = "results" /\ Len(results) = num_steps)

\* C9: set_experiment with a power inside [0, 2.5] calls seed_on, then the
\* laser's set_power with that power, then configures the RF generator, the
\* pulse device and the analyzer, and raises nothing.
C9_SetExperimentSetsPower ==
    (call.op = "set_experiment" /\ ~OutOfRange(call.args[1].edfa_power)) =>
        /\ exc = NoExc
        /\ \E i, j, k, l, m \in 1..Len(trace) :
              /\ i < j /\ j < k /\ k < l /\ l < m
              /\ IsCall(trace[i], "laser", "seed_on")
              /\ IsCall(trace[j], "laser", "set_power")
              /\ trace[j].arg = <<call.args[1].edfa_power>>
              /\ IsCall(trace[k], "rf", "configure_differential_sweep")
              /\ IsCall(trace[l], "signal_gen", "set_trigger_pulse")
              /\ IsCall(trace[m], "sa", "set_trigger")

\* C10: after set_experiment with the RF generator connected, the
\* synthesizer's sweep_time_step is the step_time set_experiment was given.
C10_StepTimeProgrammed ==
    (call.op = "set_experiment" /\ rf_gen.synth = "open") =>
        rf_gen.reg["sweep_time_step"] = call.args[1].step_time

\* The driver calls and transport operations of a trace, in order.
Ops(t) == SelectSeq(t, LAMBDA e : e.kind \in {"call", "io"})

IoOps(t) == SelectSeq(t, LAMBDA e : e.kind = "io")

\* The stage of shutdown a call or transport operation belongs to: 1 EDFA
\* shutdown, 2 seed off, 3 RF generator shutdown, 4 pulse/voltage outputs
\* off, 5 analyzer connection closed, 6 laser connection closed, 7 pulse
\* device connection closed; 0 for anything else.
Stage(e) ==
    CASE e.dev = "laser" /\ e.cmd \in {"shutdown", "shutdown_edfa", "edfa_shutdown"} -> 1
      [] e.dev = "laser" /\ e.cmd \in {"seed_off", "Enable_Current_Laser_Diode off"} -> 2
      [] e.dev = "rf" -> 3
      [] e.dev = "signal_gen"
            /\ e.cmd \in {"disable_outputs", "asg0.output_direct", "asg1.output_direct"} -> 4
      [] e.dev = "sa" /\ e.cmd \in {"disconnect", "close"} -> 5
      [] e.dev = "laser" /\ e.cmd \in {"disconnect", "close"} -> 6
      [] e.dev = "signal_gen" /\ e.cmd = "disconnect" -> 7
      [] OTHER -> 0

\* What the RF generator's shutdown writes: sweep off, both powers at the
\* minimum, both channels disabled, link closed.
RfShutdownWrites ==
    << [cmd |-> "sweep_enable", arg |-> << <<FALSE>> >>],
       [cmd |-> "power",        arg |-> << <<0, -80>> >>],
       [cmd |-> "power",        arg |-> << <<1, -80>> >>],
       [cmd |-> "enable",       arg |-> << <<0, 0>> >>],
       [cmd |-> "enable",       arg |-> << <<1, 0>> >>],
       [cmd |-> "close",        arg |-> <<>>] >>

RfIo(t) == SelectSeq(t, LAMBDA e : e.kind = "io" /\ e.dev = "rf")

\* C11: the calls and transport operations of a shutdown belong to the
\* stages EDFA shutdown, seed off, RF generator shutdown, outputs off,
\* analyzer closed, laser closed, pulse device closed, in this order; the RF
\* generator is written sweep off, power minimum on both channels, both
\* channels disabled, close, in this order; and a shutdown that returns has
\* gone through all seven stages.
C11_ShutdownOrder ==
    call.op = "shutdown" =>
        /\ \A i, j \in 1..Len(Ops(trace)) :
              /\ Stage(Ops(trace)[i]) >= 1
              /\ (i < j => Stage(Ops(trace)[i]) <= Stage(Ops(trace)[j]))
        /\ Len(RfIo(trace)) <= Len(RfShutdownWrites)
        /\ \A k \in 1..Len(RfIo(trace)) :
              /\ RfIo(trace)[k].cmd = RfShutdownWrites[k].cmd
              /\ RfIo(trace)[k].arg = RfShutdownWrites[k].arg
        /\ (exc = NoExc /\ rf_gen.synth = "closed") =>
              Len(RfIo(trace)) = Len(RfShutdownWrites)
        /\ exc = NoExc =>
              \A s \in 1..7 :
                 \E j \in 1..Len(trace) : trace[j].kind = "call" /\ Stage(trace[j]) = s

\* A shutdown of a fully connected set-up in which every operation went
\* through: two laser commands, six RF writes, two outputs, three closes.
C11_Witness ==
    /\ call.op = "shutdown"
    /\ exc = NoExc
    /\ [k \in 1..Len(IoOps(trace)) |-> IoOps(trace)[k].dev] =
           <<"laser", "laser", "rf", "rf", "rf", "rf", "rf", "rf",
             "signal_gen", "signal_gen", "sa", "laser">>

\* C12: a shutdown that follows a shutdown which returned, all of laser,
\* pulse device and analyzer having been connected, raises nothing and
\* performs no transport operation (no command, no close) on any device.
C12_ShutdownIdempotent ==
    [][(/\ call.op = "shutdown"
        /\ exc = NoExc
        /\ {"laser", "signal_gen", "sa"} \subseteq connected
        /\ call'.op = "shutdown") =>
          /\ exc' = NoExc
          /\ NoIo(trace')]_vars

\* A step time outside [4, 10000].
BadStepTime(step_time) == RLt(step_time, RInt(4)) \/ RLt(RInt(10000), step_time)

\* C13: configure_differential_sweep with step_time outside [4, 10000], on
\* a synthesizer whose link is not closed, raises nothing, writes nothing
\* (no sweep setting, no trigger mode) and leaves the synthesizer's sweep
\* configuration as it was.
C13_BadStepTimeSkipsSweep ==
    [][(/\ call'.op = "rf.configure_differential_sweep"
        /\ BadStepTime(call'.args[5])
        /\ rf_gen.synth # "closed") =>
          /\ exc' = NoExc
          /\ NoIo(trace')
          /\ rf_gen' = rf_gen]_vars

\* The driver calls and the orchestrator's own steps of a trace, in order.
StepCalls(t) == SelectSeq(t, LAMBDA e : e.kind \in {"call", "local"})

StepOrder ==
    << [dev |-> "signal_gen", cmd |-> "set_dc_voltage"],
       [dev |-> "wavemeter",  cmd |-> "get_frequency"],
       [dev |-> "sa",         cmd |-> "start_sweep"],
       [dev |-> "sa",         cmd |-> "fetch_trace"],
       [dev |-> "controller", cmd |-> "append"],
       [dev |-> "controller", cmd |-> "sleep"] >>

IsIo(e, d, c) == e.kind = "io" /\ e.dev = d /\ e.cmd = c

\* C14: the calls of a step of run_experiment are set_dc_voltage,
\* get_frequency, start_sweep(continuous=False), fetch_trace, append, sleep
\* (delay), in this order and once each (a step that raises stops after some
\* of them); a :FETCh? sent to the analyzer follows, in the same step,
\* :INITiate:CONTinuous OFF and :INITiate:IMMediate; and the entry a step
\* appends is that step's, appended before the loop variable moves on.
C14_StepOrder ==
    call.op = "run_experiment" =>
        /\ Len(StepCalls(trace)) <= Len(StepOrder)
        /\ \A k \in 1..Len(StepCalls(trace)) :
              /\ StepCalls(trace)[k].dev = StepOrder[k].dev
              /\ StepCalls(trace)[k].cmd = StepOrder[k].cmd
              /\ (k = 3 => StepCalls(trace)[k].arg = <<FALSE>>)
        /\ \A j \in 1..Len(trace) :
              IsIo(trace[j], "sa", ":FETCh?") =>
                  \E i, k \in 1..Len(trace) :
                      /\ i < k /\ k < j
                      /\ IsIo(trace[i], "sa", ":INITiate:CONTinuous")
                      /\ trace[i].arg = <<"OFF">>
                      /\ IsIo(trace[k], "sa", ":INITiate:IMMediate")
        /\ (exc = NoExc /\ Len(trace) > 0) =>
              /\ Len(StepCalls(trace)) = Len(StepOrder)
              /\ StepCalls(trace)[5].arg = <<step - 1>>
              /\ StepCalls(trace)[6].arg = <<call.args[2]>>
              /\ Len(results) = step
              /\ results[step].step = step - 1

\* The second step of a run with every device connected has gone through.
C14_Witness ==
    /\ call.op = "run_experiment"
    /\ pc = "loop"
    /\ step = 2
    /\ exc = NoExc
    /\ signal_gen.pyrpl
    /\ \E j \in 1..Len(trace) : IsIo(trace[j], "sa", ":FETCh?")
    /\ \E j \in 1..Len(trace) : IsIo(trace[j], "signal_gen", "asg1.setup")

C15_Outcome ==
    call.op = "run_experiment" =>
        /\ num_steps = 1 =>
              /\ trace = <<>>
              /\ results = <<>>
              /\ ret # "results"
              /\ (pc = "idle" => exc = "ZeroDivisionError")
        /\ num_steps = 0 =>
              /\ trace = <<>>
              /\ results = <<>>
              /\ exc = NoExc
              /\ (pc = "idle" => ret = "results")

C15_Frame ==
    (call'.op = "run_experiment" /\ num_steps' <= 1) =>
        <<laser, rf_gen, signal_gen, sa, afg>>' = <<laser, rf_gen, signal_gen, sa, afg>>

\* C15: run_experiment(1, delay) raises ZeroDivisionError with no driver
\* call or transport operation made, no entry appended and no list returned;
\* run_experiment(0, delay) makes no driver call and returns the empty list;
\* neither changes any device.
C15_DegenerateRuns == [](C15_Outcome) /\ [][C15_Frame]_vars

\* run_experiment(1, delay) has raised with the pulse device and the
\* analyzer connected.
C15_Witness ==
    /\ call.op = "run_experiment"
    /\ num_steps = 1
    /\ pc = "idle"
    /\ exc = "ZeroDivisionError"
    /\ signal_gen.pyrpl
    /\ sa.sa = "open"

\* C16: when MuquansLaser.shutdown has sent the seed-off command, the EDFA
\* shutdown before it was acknowledged, so that the cached amplifier power
\* is zero.
C16_SeedOffAfterEdfaOff ==
    (/\ call.op = "laser.shutdown"
     /\ \E j \in 1..Len(trace) :
           IsIo(trace[j], "laser", "Enable_Current_Laser_Diode off")) =>
        laser.current_power = RInt(0)

\* Event j of the trace is command c written to the laser, and the next
\* event is its non-empty response.
Acked(t, j, c) ==
    /\ IsIo(t[j], "laser", c)
    /\ j + 1 <= Len(t)
    /\ IsReturn(t[j + 1], "laser")
    /\ t[j + 1].arg[1] \notin {None, ""}

\* C17: laser_on and current_power change only in a call made on a live
\* connection in which the matching command was written and answered with
\* a non-empty response, and then to the value that command asked for; a
\* call without such an answer (no connection, failed write or read, empty
\* response) leaves both as they were.
C17_CacheFollowsAck ==
    [][/\ (laser'.current_power # laser.current_power) =>
             /\ laser.tn
             /\ \/ \E j \in 1..Len(trace') :
                       /\ Acked(trace', j, "edfa_set")
                       /\ laser'.current_power = trace'[j].arg[1]
                \/ \E j \in 1..Len(trace') :
                       /\ Acked(trace', j, "edfa_shutdown")
                       /\ laser'.current_power = RInt(0)
       /\ (laser'.laser_on # laser.laser_on) =>
             /\ laser.tn
             /\ \/ \E j \in 1..Len(trace') :
                       /\ Acked(trace', j, "Enable_Current_Laser_Diode on")
                       /\ laser'.laser_on
                \/ \E j \in 1..Len(trace') :
                       /\ Acked(trace', j, "Enable_Current_Laser_Diode off")
                       /\ ~laser'.laser_on]_vars

\* set_power(2.5) was written and answered with an empty line while the
\* cache held the 1.2 an earlier call had acknowledged, and still holds it.
C17_Witness ==
    /\ call.op = "laser.set_power"
    /\ call.args[1] = <<5, 2>>
    /\ laser.tn
    /\ laser.laser_on
    /\ laser.current_power = <<6, 5>>
    /\ \E j \in 1..Len(trace) :
          /\ IsIo(trace[j], "laser", "edfa_set")
          /\ j + 1 <= Len(trace)
          /\ IsReturn(trace[j + 1], "laser")
          /\ trace[j + 1].arg = <<"">>

=============================================================================
